---- MODULE Spec2Model ----
(***************************************************************************)
(* Model of src/version_rss_api.py: the version plugins (WordpressPlugin,  *)
(* GithubReleases and its subclasses) and the most_recent request handler. *)
(*                                                                         *)
(* Python strings are modelled as sequences of one-character strings, so   *)
(* that lower(), strip(), startswith(), split(), the semver regular        *)
(* expression, packaging.version.parse and str(Version) are computed and   *)
(* not assumed.  Optional[str] is the record [has, v].                     *)
(***************************************************************************)
EXTENDS Integers, Sequences, FiniteSets, TLC

\* ------------------------------------------------------------------ bounds
\* longest Atom feed (number of entries) a unit call is given
MaxFeedLen == 2
\* largest number of items in the JSON object the wordpress endpoint returns
MaxItems == 2
\* number of requests to /v1/most_recent served against the same responses
MaxRequests == 2

\* ------------------------------------------------------- Optional[str]
None == [has |-> FALSE, v |-> <<>>]

Some(s) == [has |-> TRUE, v |-> s]

\* Python truthiness of an Optional[str]: None and '' are both falsy
Truthy(o) == o.has /\ o.v # <<>>

\* ------------------------------------------------------------ characters
\* the upper-case letters and what str.lower() makes of each
LowerOf ==
    [A |-> "a", B |-> "b", C |-> "c", D |-> "d", E |-> "e", F |-> "f", G |-> "g",
     H |-> "h", I |-> "i", J |-> "j", K |-> "k", L |-> "l", M |-> "m", N |-> "n",
     O |-> "o", P |-> "p", Q |-> "q", R |-> "r", S |-> "s", T |-> "t", U |-> "u",
     V |-> "v", W |-> "w", X |-> "x", Y |-> "y", Z |-> "z"]

Digits == <<"0","1","2","3","4","5","6","7","8","9">>

IsDigit(c) == \E i \in 1..10 : Digits[i] = c

DigitVal(c) == (CHOOSE i \in 1..10 : Digits[i] = c) - 1

\* str.lower() on one character
LowerChar(c) == IF c \in DOMAIN LowerOf THEN LowerOf[c] ELSE c

\* str.lower()
Lower(s) == [i \in 1..Len(s) |-> LowerChar(s[i])]

\* `sub in s`
Contains(s, sub) ==
    \E i \in 1..(Len(s) - Len(sub) + 1) : SubSeq(s, i, i + Len(sub) - 1) = sub

\* s.startswith(p)
StartsWith(s, p) == Len(s) >= Len(p) /\ SubSeq(s, 1, Len(p)) = p

\* s[n:]
DropFirst(s, n) == SubSeq(s, n + 1, Len(s))

\* s.strip(ch): every leading and every trailing occurrence of ch is removed
Strip(s, ch) ==
    LET keep == {i \in 1..Len(s) : s[i] # ch}
    IN  IF keep = {} THEN <<>>
        ELSE LET lo == CHOOSE i \in keep : \A j \in keep : i <= j
                 hi == CHOOSE i \in keep : \A j \in keep : j <= i
             IN  SubSeq(s, lo, hi)

\* s.split(' ')[1]; the caller has checked that s contains a space
SplitSecond(s) ==
    LET sp    == {i \in 1..Len(s) : s[i] = " "}
        first == CHOOSE i \in sp : \A j \in sp : i <= j
        later == {i \in sp : i > first}
        stop  == IF later = {} THEN Len(s) + 1
                 ELSE CHOOSE i \in later : \A j \in later : i <= j
    IN  SubSeq(s, first + 1, stop - 1)

\* ------------------------------------------------ the semver regex, line 30
SemverMaxDigits == 4

\* s[from..from+n-1] is n digits
DigitRun(s, from, n) ==
    /\ from + n - 1 <= Len(s)
    /\ \A i \in from..(from + n - 1) : IsDigit(s[i])

DotAt(s, i) == i <= Len(s) /\ s[i] = "."

\* semver_regex.match(s): \d{1,4}\.\d{1,4}\.\d{1,4} matches at position 0
SemverMatch(s) ==
    \E n1, n2, n3 \in 1..SemverMaxDigits :
        /\ DigitRun(s, 1, n1)
        /\ DotAt(s, n1 + 1)
        /\ DigitRun(s, n1 + 2, n2)
        /\ DotAt(s, n1 + n2 + 2)
        /\ DigitRun(s, n1 + n2 + 3, n3)


\* --------------------------------------------- packaging.version (library)
\* The subset of PEP 440 that packaging.version.parse is given here: optional
\* surrounding blanks, an optional "v", and a release of dot-separated
\* numbers.  Any other string is reported as InvalidVersion (ok = FALSE); no
\* title of the model carries an epoch or a pre/post/dev/local segment past
\* the blocklist.

FirstDot(s) == CHOOSE i \in 1..Len(s) : s[i] = "." /\ \A j \in 1..(i - 1) : s[j] # "."

RECURSIVE SplitDots(_)
\* s.split('.')
SplitDots(s) ==
    IF \A i \in 1..Len(s) : s[i] # "." THEN <<s>>
    ELSE <<SubSeq(s, 1, FirstDot(s) - 1)>> \o SplitDots(DropFirst(s, FirstDot(s)))

RECURSIVE ParseInt(_)
\* int(g) for a run of digits g
ParseInt(g) ==
    IF g = <<>> THEN 0
    ELSE ParseInt(SubSeq(g, 1, Len(g) - 1)) * 10 + DigitVal(g[Len(g)])

RECURSIVE IntToStr(_)
\* str(n) for n >= 0
IntToStr(n) ==
    IF n < 10 THEN <<Digits[n + 1]>>
    ELSE IntToStr(n \div 10) \o <<Digits[(n % 10) + 1]>>

\* packaging.version.parse(s): [ok, release]; ok = FALSE is InvalidVersion
ParseVersion(s) ==
    LET t      == Lower(Strip(s, " "))
        u      == IF StartsWith(t, <<"v">>) THEN DropFirst(t, 1) ELSE t
        groups == SplitDots(u)
        ok     == \A i \in 1..Len(groups) :
                      /\ groups[i] # <<>>
                      /\ \A j \in 1..Len(groups[i]) : IsDigit(groups[i][j])
    IN  IF ok THEN [ok |-> TRUE, release |-> [i \in 1..Len(groups) |-> ParseInt(groups[i])]]
        ELSE [ok |-> FALSE, release |-> <<>>]

RECURSIVE JoinDots(_)
\* str(Version): '.'.join(str(x) for x in release)
JoinDots(release) ==
    IF Len(release) = 1 THEN IntToStr(release[1])
    ELSE JoinDots(SubSeq(release, 1, Len(release) - 1)) \o <<".">> \o IntToStr(release[Len(release)])

VersionStr(release) == JoinDots(release)

\* Version._key: the release with its trailing zeros removed
VersionKey(release) ==
    LET nz == {i \in 1..Len(release) : release[i] # 0}
    IN  IF nz = {} THEN <<>>
        ELSE SubSeq(release, 1, CHOOSE i \in nz : \A j \in nz : j <= i)

\* Python tuple comparison a < b
TupleLess(a, b) ==
    \E k \in 1..Len(b) :
        /\ k <= Len(a) + 1
        /\ \A j \in 1..(k - 1) : a[j] = b[j]
        /\ (k = Len(a) + 1 \/ a[k] < b[k])

\* code points of the characters a rendered version is made of ('.' < '0' < ... < '9')
CharCode(c) == IF c = "." THEN 0 ELSE DigitVal(c) + 1

\* a < b as Python str: the comparison a list of unparsed titles would get
StringLess(a, b) ==
    TupleLess([i \in 1..Len(VersionStr(a)) |-> CharCode(VersionStr(a)[i])],
              [i \in 1..Len(VersionStr(b)) |-> CharCode(VersionStr(b)[i])])

\* Version.__lt__(a, b)
VersionLess(a, b) == TupleLess(VersionKey(a), VersionKey(b))

\* variant: the first element is taken for the greatest (versions[0])
FirstVersion(versions) == versions[1]

RECURSIVE MaxVersion(_)
\* max(versions): the first of the greatest elements; versions is not empty
MaxVersion(versions) ==
    IF Len(versions) = 1 THEN versions[1]
    ELSE LET m == MaxVersion(SubSeq(versions, 1, Len(versions) - 1))
             x == versions[Len(versions)]
         IN  IF VersionLess(m, x) THEN x ELSE m

\* --------------------------------------------------------- the registry
\* software_name of the plugins, in the order of the list in most_recent
Registry == <<"wordpress", "signal-cli", "nextcloud", "roundcube", "dolibarr",
              "humhub", "froxlor", "rainloop", "cyberchef", "arangodb">>

Names == {Registry[i] : i \in 1..Len(Registry)}

GithubNames == Names \ {"wordpress"}

\* the subclasses of GithubReleasesWithVPrefixAndSemVer
VPrefixNames == {"nextcloud", "rainloop", "cyberchef", "arangodb"}

\* ------------------------------------------------- version_from_title
PrefixVersion == <<"V","e","r","s","i","o","n"," ">>

PrefixRoundcube == <<"R","o","u","n","d","c","u","b","e"," ","W","e","b","m","a","i","l"," ">>

PrefixFroxlor == <<"F","r","o","x","l","o","r"," ">>

\* GithubReleasesWithVPrefixAndSemVer.version_from_title
VPrefixSemVerFromTitle(title) ==
    LET t == Strip(title, "v")
    IN  IF SemverMatch(t) THEN Some(t) ELSE None

\* SignalCliPlugin.version_from_title
SignalCliFromTitle(title) ==
    IF StartsWith(title, PrefixVersion) THEN Some(DropFirst(title, 8)) ELSE None

\* RoundcubePlugin.version_from_title
RoundcubeFromTitle(title) ==
    IF StartsWith(title, PrefixRoundcube) THEN Some(DropFirst(title, 18)) ELSE None

\* DolibarrPlugin.version_from_title, HumhubPlugin.version_from_title
WholeTitle(title) == Some(title)

\* FroxlorPlugin.version_from_title
FroxlorFromTitle(title) ==
    IF StartsWith(title, PrefixFroxlor) THEN Some(SplitSecond(title)) ELSE None

\* self.version_from_title(title), dispatched on the plugin's class
VersionFromTitle(p, title) ==
    CASE p \in VPrefixNames          -> VPrefixSemVerFromTitle(title)
      [] p = "signal-cli"            -> SignalCliFromTitle(title)
      [] p = "roundcube"             -> RoundcubeFromTitle(title)
      [] p \in {"dolibarr", "humhub"} -> WholeTitle(title)
      [] p = "froxlor"               -> FroxlorFromTitle(title)

\* ------------------------------------------------------ GithubReleases
VERSION_BLOCKLIST == <<<<"b","e","t","a">>, <<"r","c">>>>

\* variant: the title is not lowercased before the blocklist is looked up
BlockedCaseSensitive(title) ==
    \E k \in 1..Len(VERSION_BLOCKLIST) : Contains(title, VERSION_BLOCKLIST[k])

\* any(block in title.lower() for block in self.VERSION_BLOCKLIST)
Blocked(title) ==
    \E k \in 1..Len(VERSION_BLOCKLIST) : Contains(Lower(title), VERSION_BLOCKLIST[k])


\* the state of the loop of GithubReleases.__call__: the list `versions`, and
\* what was handed to version_from_title and to packaging.version.parse
LoopStart(versions0) ==
    [versions |-> versions0, raised |-> FALSE,
     vftArgs |-> <<>>, vftRets |-> <<>>, parseArgs |-> <<>>]

\* one turn of `for entry in feed.entries` (lines 62-67)
LoopStep(p, title, st) ==
    IF Blocked(title) THEN st
    ELSE LET version == VersionFromTitle(p, title)
             st1     == [st EXCEPT !.vftArgs = Append(@, title),
                                   !.vftRets = Append(@, version)]
         IN  IF ~Truthy(version) THEN st1
             ELSE LET pv  == ParseVersion(version.v)
                      st2 == [st1 EXCEPT !.parseArgs = Append(@, version.v)]
                  IN  IF pv.ok
                      THEN [st2 EXCEPT !.versions = Append(@, pv.release)]
                      ELSE [st2 EXCEPT !.raised = TRUE]

RECURSIVE Loop(_, _, _, _)
\* the loop; InvalidVersion raised by line 67 ends it
Loop(p, entries, i, st) ==
    IF i > Len(entries) \/ st.raised THEN st
    ELSE Loop(p, entries, i + 1, LoopStep(p, entries[i], st))

\* ------------------------------------------------------ the responses
\* What the network answers to a GET: kind is "ok", or the exception of
\* session.get ("ConnectionError"), of raise_for_status ("HTTPError") or of
\* the body's parser ("ParseError").  entries are the titles of an Atom feed,
\* items the (version, status) pairs of the wordpress JSON object, in order.
ErrorKinds == {"ConnectionError", "HTTPError", "ParseError"}

Failure(kind) == [kind |-> kind, entries |-> <<>>, items |-> <<>>]

Feed(entries) == [kind |-> "ok", entries |-> entries, items |-> <<>>]

Json(items) == [kind |-> "ok", entries |-> <<>>, items |-> items]

\* variant: response.raise_for_status() is left out and a body that does not
\* parse is read as empty
OnlyConnectionRaises(resp) == resp.kind = "ConnectionError"

\* session.get, raise_for_status and the body's parser (lines 46-48, 57-59)
FetchRaises(resp) ==
    \/ resp.kind = "ConnectionError"
    \/ resp.kind = "HTTPError"
    \/ resp.kind = "ParseError"

\* variant: a failed GET is sent a second time
GetsWithRetry(p, resp) == IF resp.kind = "ok" THEN <<p>> ELSE <<p, p>>

\* the plugins whose session.get is called by one plugin call: its own, once
Gets(p, resp) == <<p>>

\* variant: `versions` is shared by the calls (a class attribute) and never emptied
KeptVersions(previous) == previous

\* versions = [] (line 60); `previous` is the list the call before left behind
NewVersions(previous) == <<>>

\* GithubReleases.__call__
GithubCall(p, resp, previous) ==
    IF FetchRaises(resp)
    THEN [raised |-> TRUE, ret |-> None, gets |-> Gets(p, resp),
          loop |-> LoopStart(previous)]
    ELSE LET st == Loop(p, resp.entries, 1, LoopStart(NewVersions(previous)))
         IN  [raised |-> st.raised,
              ret    |-> IF ~st.raised /\ Len(st.versions) > 0
                         THEN Some(VersionStr(MaxVersion(st.versions)))
                         ELSE None,
              gets   |-> Gets(p, resp),
              loop   |-> st]

\* variant: the first key is returned whatever its status
FirstItem(items, i) ==
    IF i > Len(items) THEN None ELSE Some(items[i][1])

RECURSIVE FirstLatest(_, _)
\* for version, status in response.json().items(): if status == 'latest': return version
FirstLatest(items, i) ==
    IF i > Len(items) THEN None
    ELSE IF items[i][2] = "latest" THEN Some(items[i][1])
    ELSE FirstLatest(items, i + 1)

\* WordpressPlugin.__call__
WordpressCall(p, resp, previous) ==
    [raised |-> FetchRaises(resp),
     ret    |-> IF FetchRaises(resp) THEN None ELSE FirstLatest(resp.items, 1),
     gets   |-> Gets(p, resp),
     loop   |-> LoopStart(previous)]

\* plugin(): dispatched on the plugin's class
PluginCall(p, resp, previous) ==
    IF p = "wordpress" THEN WordpressCall(p, resp, previous)
    ELSE GithubCall(p, resp, previous)

\* ------------------------------------------------------------ the inputs
\* release titles an Atom feed may carry
Titles ==
    {<<"V","e","r","s","i","o","n"," ","1",".","2",".","3">>,
     <<"V","e","r","s","i","o","n"," ","1",".","3",".","0","-","b","e","t","a">>,
     <<"V","e","r","s","i","o","n"," ","1",".","2",".","9">>,
     <<"2",".","1","0",".","0">>,
     <<"2",".","9",".","0">>,
     <<"v","2",".","9",".","1">>,
     <<"v","v","1",".","2",".","3">>,
     <<"1",".","2",".","3","v">>,
     <<"3",".","0",".","0"," ","f","i","n","a","l">>,
     <<"F","r","o","x","l","o","r"," ","0",".","1","0",".","2","5">>,
     <<"F","r","o","x","l","o","r"," ","0",".","9",".","4","0"," ","x">>,
     <<"R","o","u","n","d","c","u","b","e"," ","W","e","b","m","a","i","l"," ","1",".","4",".","1","1">>,
     <<"R","o","u","n","d","c","u","b","e"," ","W","e","b","m","a","i","l"," ","1",".","4",".","9">>,
     <<"1",".","0",".","0","-","R","C","1">>,
     <<"n","i","g","h","t","l","y">>,
     <<>>,
     <<"1",".","2",".","3",".","4">>,
     <<"0","2",".","1","0",".","0">>}

\* the feed of the documented example: the middle release is a beta
ExampleFeed ==
    <<<<"V","e","r","s","i","o","n"," ","1",".","2",".","3">>,
      <<"V","e","r","s","i","o","n"," ","1",".","3",".","0","-","b","e","t","a">>,
      <<"V","e","r","s","i","o","n"," ","1",".","2",".","9">>>>

RECURSIVE SeqsUpTo(_, _)
\* the sequences over S of length at most n
SeqsUpTo(S, n) ==
    IF n = 0 THEN {<<>>}
    ELSE LET shorter == SeqsUpTo(S, n - 1)
         IN  shorter \cup {Append(q, x) : q \in shorter, x \in S}

WpVersions == {<<"6",".","1">>, <<"6",".","2">>, <<"5",".","9">>}

WpStatuses == {"latest", "outdated", "insecure"}

\* a JSON object has each key once
DistinctKeys(items) ==
    \A i, j \in 1..Len(items) : items[i][1] = items[j][1] => i = j

\* the responses a plugin called on its own is given
UnitResponses(p) ==
    {Failure(k) : k \in ErrorKinds} \cup
    IF p = "wordpress"
    THEN {Json(items) : items \in {q \in SeqsUpTo(WpVersions \X WpStatuses, MaxItems) :
                                      DistinctKeys(q)}}
    ELSE {Feed(entries) : entries \in SeqsUpTo(Titles, MaxFeedLen) \cup {ExampleFeed}}


\* a release title in each plugin's own convention
GoodTitle(p) ==
    CASE p = "signal-cli" -> <<"V","e","r","s","i","o","n"," ","1",".","2",".","9">>
      [] p = "nextcloud"  -> <<"v","2",".","9",".","1">>
      [] p = "roundcube"  -> <<"R","o","u","n","d","c","u","b","e"," ","W","e","b","m","a","i","l"," ","1",".","4",".","1","1">>
      [] p = "dolibarr"   -> <<"2",".","1","0",".","0">>
      [] p = "humhub"     -> <<"2",".","9",".","0">>
      [] p = "froxlor"    -> <<"F","r","o","x","l","o","r"," ","0",".","1","0",".","2","5">>
      [] p = "rainloop"   -> <<"1",".","2",".","3","v">>
      [] p = "cyberchef"  -> <<"0","2",".","1","0",".","0">>
      [] p = "arangodb"   -> <<"1",".","2",".","3",".","4">>

\* the responses a plugin is given when a request runs the whole registry
AggResponses(p) ==
    CASE p = "wordpress" ->
            {Failure("ConnectionError"),
             Json(<<<<<<"6",".","1">>, "outdated">>, <<<<"6",".","2">>, "latest">>>>),
             Json(<<<<<<"6",".","1">>, "outdated">>>>)}
      [] p = "dolibarr" ->
            {Failure("ParseError"), Feed(<<>>), Feed(<<GoodTitle(p)>>),
             Feed(<<<<"n","i","g","h","t","l","y">>>>)}
      [] p \in {"signal-cli", "nextcloud"} ->
            {Failure("HTTPError"), Feed(<<>>), Feed(<<GoodTitle(p)>>)}
      [] OTHER ->
            {Failure("HTTPError"), Feed(<<GoodTitle(p)>>)}

\* ------------------------------------------------------------- the state
VARIABLES
    net,        \* the answer each plugin's URL gives, fixed for the run
    pc,         \* most_recent: "idle" between requests, "running" within one
    idx,        \* position in `plugins` of the next plugin the generator calls
    results,    \* the (software_name, version) pairs generated so far
    response,   \* the last HTTP response of /v1/most_recent: status and body
    prev,       \* the response of the request before that
    reqNo,      \* requests answered so far
    fetchLog,   \* the plugins whose URL was requested in the current request
    versions,   \* the list `versions` of the latest GithubReleases.__call__
    out,        \* a plugin constructed on its own (self.OUT of src/test.py)
    outResp,    \* the answer its URL gives
    outPc,      \* "setUp" before self.OUT() is called, "called" after
    outCall     \* what self.OUT() did

aggVars == <<net, pc, idx, results, response, prev, reqNo, fetchLog, versions>>

unitVars == <<out, outResp, outPc, outCall>>

vars == <<net, pc, idx, results, response, prev, reqNo, fetchLog, versions,
          out, outResp, outPc, outCall>>

NoBody == [n \in {} |-> None]

NoResponse == [status |-> "none", body |-> NoBody]

NoCall == [raised |-> FALSE, ret |-> None, gets |-> <<>>, loop |-> LoopStart(<<>>)]

\* ------------------------------------------------- /v1/most_recent
\* the server is up with no request served; every URL has its answer
Init ==
    /\ \E r1 \in AggResponses(Registry[1]), r2 \in AggResponses(Registry[2]),
          r3 \in AggResponses(Registry[3]), r4 \in AggResponses(Registry[4]),
          r5 \in AggResponses(Registry[5]), r6 \in AggResponses(Registry[6]),
          r7 \in AggResponses(Registry[7]), r8 \in AggResponses(Registry[8]),
          r9 \in AggResponses(Registry[9]), r10 \in AggResponses(Registry[10]) :
            net = [p \in Names |->
                      <<r1, r2, r3, r4, r5, r6, r7, r8, r9, r10>>[
                          CHOOSE i \in 1..Len(Registry) : Registry[i] = p]]
    /\ pc = "idle"
    /\ idx = 1
    /\ results = NoBody
    /\ response = NoResponse
    /\ prev = NoResponse
    /\ reqNo = 0
    /\ fetchLog = <<>>
    /\ versions = <<>>
    /\ out = "wordpress"
    /\ outResp = Failure("HTTPError")
    /\ outPc = "setUp"
    /\ outCall = NoCall

\* a request arrives: plugins = [cls(USER_AGENT) for cls in [...]] (lines 240-251)
StartRequest ==
    /\ pc = "idle"
    /\ reqNo < MaxRequests
    /\ pc' = "running"
    /\ idx' = 1
    /\ results' = NoBody
    /\ fetchLog' = <<>>
    /\ UNCHANGED <<net, response, prev, reqNo, versions>>
    /\ UNCHANGED unitVars

\* variant: the exception of a plugin is caught and its value reported as None
NeverAborts(o) == FALSE

\* an exception of pluign() leaves the generator expression and the handler
Aborts(o) == o.raised

\* the request is answered
Answer(r) ==
    /\ response' = r
    /\ prev' = response
    /\ reqNo' = reqNo + 1
    /\ pc' = "idle"

\* the generator of line 252 calls the next plugin: (pluign.software_name, pluign())
CallPlugin ==
    /\ pc = "running"
    /\ idx <= Len(Registry)
    /\ LET p == Registry[idx]
           o == PluginCall(p, net[p], versions)
       IN  /\ fetchLog' = fetchLog \o o.gets
           /\ versions' = o.loop.versions
           /\ IF Aborts(o)
              THEN /\ Answer([status |-> "500", body |-> NoBody])
                   /\ UNCHANGED <<idx, results>>
              ELSE /\ idx' = idx + 1
                   /\ results' = [n \in DOMAIN results \cup {p} |->
                                     IF n = p THEN o.ret ELSE results[n]]
                   /\ UNCHANGED <<pc, response, prev, reqNo>>
    /\ UNCHANGED net
    /\ UNCHANGED unitVars

\* the generator is exhausted: return jsonify(dict(...)) (line 252)
Respond ==
    /\ pc = "running"
    /\ idx > Len(Registry)
    /\ Answer([status |-> "200", body |-> results])
    /\ UNCHANGED <<net, idx, results, fetchLog, versions>>
    /\ UNCHANGED unitVars

Next ==
    \/ StartRequest
    \/ CallPlugin
    \/ Respond

Spec == Init /\ [][Next]_vars

\* ------------------------------------------------- one plugin on its own
\* a plugin is constructed (setUp of src/test.py); no request is served
InitExtract ==
    /\ out \in Names
    /\ outResp \in UnitResponses(out)
    /\ outPc = "setUp"
    /\ outCall = NoCall
    /\ net = [p \in Names |-> Failure("HTTPError")]
    /\ pc = "idle"
    /\ idx = 1
    /\ results = NoBody
    /\ response = NoResponse
    /\ prev = NoResponse
    /\ reqNo = 0
    /\ fetchLog = <<>>
    /\ versions = <<>>

\* version = self.OUT() on a WordpressPlugin (src/test.py, line 20)
CallWordpress ==
    /\ outPc = "setUp"
    /\ out = "wordpress"
    /\ outCall' = WordpressCall(out, outResp, <<>>)
    /\ outPc' = "called"
    /\ UNCHANGED <<out, outResp>>
    /\ UNCHANGED aggVars

\* version = self.OUT() on a subclass of GithubReleases (src/test.py, line 36)
CallGithub ==
    /\ outPc = "setUp"
    /\ out \in GithubNames
    /\ outCall' = GithubCall(out, outResp, <<>>)
    /\ outPc' = "called"
    /\ UNCHANGED <<out, outResp>>
    /\ UNCHANGED aggVars

NextExtract ==
    \/ CallWordpress
    \/ CallGithub

SpecExtract == InitExtract /\ [][NextExtract]_vars


\* ---------------------------------------------------------------- claims
\* the blocklist rule as the specification words it
ClaimBlocked(title) ==
    Contains(Lower(title), <<"b","e","t","a">>) \/ Contains(Lower(title), <<"r","c">>)

\* the unit call has run against a feed that was fetched and parsed
GithubCalled == outPc = "called" /\ out \in GithubNames /\ outResp.kind = "ok"

\* the entries that pass the blocklist and from which version_from_title gets a version
Qualifying ==
    {i \in 1..Len(outResp.entries) :
        /\ ~ClaimBlocked(outResp.entries[i])
        /\ Truthy(VersionFromTitle(out, outResp.entries[i]))}

CandidateOf(i) == VersionFromTitle(out, outResp.entries[i]).v

\* C1: what a release-feed extractor returns is, when present, the greatest
\* (under version ordering) of the candidates of the entries that pass the
\* blocklist and yield a version; with no such entry, and with an empty feed,
\* it returns None and raises nothing.
C1_ReturnsMaxOfQualifying ==
    GithubCalled =>
        LET parsed == [i \in Qualifying |-> ParseVersion(CandidateOf(i))]
        IN  /\ Qualifying = {} => (~outCall.raised /\ outCall.ret = None)
            /\ outCall.ret.has =>
                  /\ Qualifying # {}
                  /\ \A i \in Qualifying : parsed[i].ok
                  /\ \E i \in Qualifying :
                        /\ outCall.ret.v = VersionStr(parsed[i].release)
                        /\ \A j \in Qualifying :
                              ~TupleLess(VersionKey(parsed[i].release),
                                         VersionKey(parsed[j].release))

C1_Witness ==
    /\ GithubCalled
    /\ out = "signal-cli"
    /\ outResp.entries = <<<<"V","e","r","s","i","o","n"," ","1",".","2",".","9">>, <<"V","e","r","s","i","o","n"," ","1",".","2",".","3">>>>
    /\ outCall.ret = Some(<<"1",".","2",".","9">>)

C1_WitnessEmpty ==
    /\ GithubCalled
    /\ outResp.entries = <<>>
    /\ outCall.ret = None

\* C2: an unblocked entry whose candidate is not a well-formed version is
\* skipped: the extractor call does not raise.
C2_MalformedCandidateSkipped ==
    GithubCalled => ~outCall.raised

\* C3: the blocklist is applied before the title is parsed: a title whose
\* lowercased form contains "beta" or "rc" is never handed to
\* version_from_title nor to version parsing, and the outcome is the one of
\* the same feed with its blocked entries removed.
C3_BlockedNeverParsed ==
    GithubCalled =>
        LET kept  == SelectSeq(outResp.entries, LAMBDA t : ~ClaimBlocked(t))
            clean == GithubCall(out, Feed(kept), <<>>)
        IN  /\ \A i \in 1..Len(outCall.loop.vftArgs) :
                  ~ClaimBlocked(outCall.loop.vftArgs[i])
            /\ \A i \in 1..Len(outCall.loop.parseArgs) :
                  \E j \in 1..Len(kept) :
                      VersionFromTitle(out, kept[j]) = Some(outCall.loop.parseArgs[i])
            /\ outCall.ret = clean.ret
            /\ outCall.raised = clean.raised
            /\ (out = "signal-cli" /\ outResp.entries = ExampleFeed)
                  => outCall.ret = Some(<<"1",".","2",".","9">>)

C3_Witness ==
    /\ GithubCalled
    /\ out = "signal-cli"
    /\ outResp.entries = ExampleFeed
    /\ outCall.loop.vftArgs = <<ExampleFeed[1], ExampleFeed[3]>>
    /\ outCall.ret = Some(<<"1",".","2",".","9">>)

\* C4: given a fetched mapping, the wordpress extractor returns a version
\* whose status is "latest" when there is one, and otherwise returns None
\* without raising; it never returns a version of another status.
C4_ReturnsLatest ==
    (outPc = "called" /\ out = "wordpress" /\ outResp.kind = "ok") =>
        LET latest == {i \in 1..Len(outResp.items) : outResp.items[i][2] = "latest"}
        IN  /\ ~outCall.raised
            /\ latest # {} =>
                  /\ outCall.ret.has
                  /\ \E i \in latest : outResp.items[i][1] = outCall.ret.v
            /\ latest = {} => outCall.ret = None

C4_Witness ==
    /\ outPc = "called"
    /\ out = "wordpress"
    /\ outResp.items = <<<<<<"6",".","1">>, "outdated">>, <<<<"6",".","2">>, "latest">>>>
    /\ outCall.ret = Some(<<"6",".","2">>)

\* a string of exactly three dot-separated runs of digits
IsPlainTriple(s) ==
    LET g == SplitDots(s)
    IN  /\ Len(g) = 3
        /\ \A i \in 1..3 : g[i] # <<>> /\ \A j \in 1..Len(g[i]) : IsDigit(g[i][j])

TripleOf(s) == [i \in 1..3 |-> ParseInt(SplitDots(s)[i])]

\* (major, minor, patch) compared as integers, major first
IntTripleLess(a, b) ==
    \/ a[1] < b[1]
    \/ a[1] = b[1] /\ a[2] < b[2]
    \/ a[1] = b[1] /\ a[2] = b[2] /\ a[3] < b[3]

\* C6: candidates are compared as (major, minor, patch) integers, not as
\* strings: a returned a.b.c is never numerically smaller than a candidate
\* d.e.f of the same feed.
C6_NumericOrder ==
    (GithubCalled /\ outCall.ret.has /\ IsPlainTriple(outCall.ret.v)) =>
        \A j \in Qualifying :
            IsPlainTriple(CandidateOf(j)) =>
                ~IntTripleLess(TripleOf(outCall.ret.v), TripleOf(CandidateOf(j)))

C6_Witness ==
    /\ GithubCalled
    /\ out = "dolibarr"
    /\ outResp.entries = <<<<"2",".","1","0",".","0">>, <<"2",".","9",".","0">>>>
    /\ outCall.ret = Some(<<"2",".","1","0",".","0">>)

\* the v-prefix rule as the specification words it: one optional leading "v"
\* is removed, and the text the pattern matches at position 0 is returned
ClaimedVPrefixRule(title) ==
    LET t == IF StartsWith(title, <<"v">>) THEN DropFirst(title, 1) ELSE title
    IN  IF ~SemverMatch(t) THEN None
        ELSE LET d1    == FirstDot(t)
                 d2    == d1 + FirstDot(DropFirst(t, d1))
                 runs  == {n \in 1..SemverMaxDigits : DigitRun(t, d2 + 1, n)}
                 n3    == CHOOSE n \in runs : \A m \in runs : m <= n
             IN  Some(SubSeq(t, 1, d2 + n3))

\* C7: version_from_title of the v-prefix+semver extractors removes a single
\* optional leading "v" and returns exactly the text matched by the pattern at
\* position 0, or nothing.
C7_VPrefixRule ==
    (GithubCalled /\ out \in VPrefixNames) =>
        \A i \in 1..Len(outCall.loop.vftArgs) :
            outCall.loop.vftRets[i] = ClaimedVPrefixRule(outCall.loop.vftArgs[i])


\* a request has been answered and no other is under way
Answered == pc = "idle" /\ reqNo > 0

\* the plugin's URL does not deliver a feed or mapping
FetchFails(p) == net[p].kind \in ErrorKinds

\* the plugin called on its own, with nothing left behind by another call
Alone(p) == PluginCall(p, net[p], <<>>)

\* C5: a request ends either in an error or in a mapping whose keys are the
\* software names of the ten registered extractors, each with its extractor's
\* own result; a fetch error of any extractor ends the request in an error
\* and is never shown as null or as a version.
C5_ErrorOrFullMapping ==
    Answered =>
        /\ \/ response.status = "500" /\ response.body = NoBody
           \/ /\ response.status = "200"
              /\ DOMAIN response.body = Names
              /\ Cardinality(DOMAIN response.body) = 10
              /\ \A n \in Names : response.body[n] = Alone(n).ret
        /\ (\E n \in Names : FetchFails(n)) => response.status = "500"

C5_Witness ==
    /\ Answered
    /\ response.status = "200"
    /\ response.body["dolibarr"] = None
    /\ response.body["wordpress"] = Some(<<"6",".","2">>)

C5_WitnessError ==
    /\ Answered
    /\ response.status = "500"
    /\ FetchFails("arangodb")
    /\ \A n \in Names \ {"arangodb"} : ~FetchFails(n)

\* C8: within one request each extractor sends at most one GET; after a
\* failed fetch the extractor does not fetch again and the request ends with
\* that one failure.
C8_OneFetchPerExtractor ==
    /\ \A p \in Names : Cardinality({i \in 1..Len(fetchLog) : fetchLog[i] = p}) <= 1
    /\ \A i \in 1..Len(fetchLog) :
          FetchFails(fetchLog[i]) => (i = Len(fetchLog) /\ Answered)

C8_Witness ==
    /\ Answered
    /\ Len(fetchLog) = 3
    /\ FetchFails(fetchLog[3])
    /\ response.status = "500"

\* the aggregate as a function of the responses alone, with no order of calls
AggregateOf ==
    IF \E n \in Names : Alone(n).raised
    THEN [status |-> "500", body |-> NoBody]
    ELSE [status |-> "200", body |-> [n \in Names |-> Alone(n).ret]]

\* C9: the aggregate is a function of the fetch responses: it is what the
\* extractors give one by one, in whatever order, and a second request
\* against the same responses is answered as the first.
C9_PureAggregate ==
    Answered =>
        /\ response = AggregateOf
        /\ reqNo >= 2 => response = prev

C9_Witness ==
    /\ Answered
    /\ reqNo = 2
    /\ response.status = "200"
    /\ prev = response
    /\ \A n \in Names : response.body[n].has

\* index in the registry of the first plugin whose call raises
FirstRaising ==
    CHOOSE i \in 1..Len(Registry) :
        /\ Alone(Registry[i]).raised
        /\ \A j \in 1..(i - 1) : ~Alone(Registry[j]).raised

\* C10: within a request the extractors are called one after another in
\* registry order; once one raises (fetch error or unparsable candidate) no
\* later extractor fetches, and what earlier extractors returned is not
\* part of the answer.
C10_SequentialAbort ==
    /\ fetchLog = SubSeq(Registry, 1, Len(fetchLog))
    /\ DOMAIN results = {Registry[i] : i \in 1..(idx - 1)}
    /\ \A i \in 1..(Len(fetchLog) - 1) : ~Alone(Registry[i]).raised
    /\ (Answered /\ \E n \in Names : Alone(n).raised) =>
          /\ Len(fetchLog) = FirstRaising
          /\ response = [status |-> "500", body |-> NoBody]

C10_Witness ==
    /\ Answered
    /\ net["dolibarr"] = Feed(<<<<"n","i","g","h","t","l","y">>>>)
    /\ fetchLog = SubSeq(Registry, 1, 5)
    /\ DOMAIN results = {"wordpress", "signal-cli", "nextcloud", "roundcube"}
    /\ response = [status |-> "500", body |-> NoBody]

====
